---- MODULE Spec2Model ----
(***************************************************************************)
(* Media acquisition and fallback orchestration of the video-downloader    *)
(* skill: ImageHandler.execute, VideoHandler.execute, download_youtube,    *)
(* search_youtube, search_pexels_videos, download_video and trim_video of  *)
(* core/handlers.py.  One request is run from the call to the returned     *)
(* result (or the escaping exception); the external tools (yt-dlp, ffmpeg, *)
(* the Pexels HTTP API) answer nondeterministically.                       *)
(***************************************************************************)
EXTENDS Integers, Sequences, FiniteSets, TLC

\* ------------------------------------------------------------------ bounds
MaxCount == 2
MaxLines == 2
MaxVideos == 2
MaxPhotos == 2
MaxFiles == 2

\* ------------------------------------------------------- program constants
\* download_youtube: self.search_youtube(query, 1, max_duration=300)
YT_MAX_DURATION == 300
\* download_youtube: self.search_youtube(query, 1, ...)
YT_SEARCH_COUNT == 1

\* ------------------------------------------------- Python optional numbers
\* A Python value that is either None or a number.
None == [isNone |-> TRUE, v |-> 0]
Num(n) == [isNone |-> FALSE, v |-> n]
\* Python truthiness of an optional number: None and 0 are falsy.
Truthy(x) == ~x.isNone /\ x.v # 0
\* Python "a or b" on optional numbers.
Or(a, b) == IF Truthy(a) THEN a ELSE b
\* Python truthiness of an optional string ("None" stands for None).
TruthyStr(s) == s # "None" /\ s # ""

\* ------------------------------------------------------------- file names
\* A file of the output directory: which download produced it, the index of
\* the candidate, how many "_trimmed" suffixes its stem carries, and the
\* timestamp its name carries (0: the name carries none).
File(kind, idx) == [kind |-> kind, idx |-> idx, trimmed |-> 0, stamp |-> 0]
\* A file that exists in the directory before the request starts.
UserFile == File("user", 0)
\* download_youtube: timestamp = datetime.now().strftime("%Y%m%d_%H%M%S"), the
\* second in which the download starts.
Timestamps == { 1, 2 }
\* download_youtube: the file yt-dlp writes from the output template
\* f"yt_{timestamp}_%(title).30s.%(ext)s".
YtFile(timestamp) == [File("yt", 0) EXCEPT !.stamp = timestamp]
\* VideoHandler.execute: f"{query}_{i+1}_{source}.mp4"
PexelsFileMutFixed(i) == File("pexels", 0)
PexelsFile(i) == File("pexels", i)
\* ImageHandler.execute: f"{query}_{i+1}_{source}.{ext}"
ImageFile(i) == File("image", i)

\* trim_video: output_path = parent / f"{stem}_trimmed{suffix}"
TrimOutputPathMutSame(input_path) == input_path
TrimOutputPath(input_path) == [input_path EXCEPT !.trimmed = @ + 1]

\* ---------------------------------------------------------------- results
NoResult == [returned |-> FALSE, success |-> FALSE, count |-> 0,
             files |-> << >>, error |-> "", help |-> ""]
Failure(error, help) == [returned |-> TRUE, success |-> FALSE, count |-> 0,
                         files |-> << >>, error |-> error, help |-> help]
Success(files) == [returned |-> TRUE, success |-> TRUE, count |-> Len(files),
                   files |-> files, error |-> "", help |-> ""]

\* ------------------------------------------------------------ small helpers
Min(a, b) == IF a <= b THEN a ELSE b
\* Python slice seq[:n]
Take(seq, n) == SubSeq(seq, 1, Min(n, Len(seq)))
\* All sequences over S of length at most n.
SeqsUpTo(S, n) == UNION {[1..k -> S] : k \in 0..n}

\* ------------------------------------------------------------ search_youtube
\* One line of yt-dlp's --dump-json output: a JSON record with a duration
\* field (None when missing or null), a line json.loads rejects
\* (JSONDecodeError), or a line json.loads accepts that is no JSON object
\* (null, a number, a string, a list): data.get raises AttributeError.
BadLine == [kind |-> "bad", duration |-> None]
NonRecordLine == [kind |-> "nonrecord", duration |-> None]
RecordLine(d) == [kind |-> "record", duration |-> d]

\* search_youtube: search_count = count * 5 if max_duration else count
SearchCount(count, max_duration) ==
    IF Truthy(max_duration) THEN count * 5 ELSE count

\* search_youtube: video_duration = data.get("duration", 0) or 0
VideoDuration(line) == Or(line.duration, Num(0)).v

\* search_youtube: "if max_duration and video_duration > max_duration: continue"
YtKeepsMutNoFilter(video_duration, max_duration) == TRUE
YtKeeps(video_duration, max_duration) ==
    ~(Truthy(max_duration) /\ video_duration > max_duration.v)

YtCandidate(i, video_duration) ==
    [source |-> "youtube", id |-> i, duration |-> video_duration]

\* search_youtube: the loop over result.stdout.strip().split('\n')
\* "except json.JSONDecodeError: pass" skips a rejected line; any other
\* exception leaves the loop for "except Exception", and "return []" follows.
RECURSIVE YtParse(_, _, _, _, _)
YtParse(lines, i, count, max_duration, results) ==
    IF i > Len(lines) THEN results
    ELSE IF lines[i].kind = "bad"
         THEN YtParse(lines, i + 1, count, max_duration, results)
    ELSE IF lines[i].kind = "nonrecord"
         THEN << >>
    ELSE IF ~YtKeeps(VideoDuration(lines[i]), max_duration)
         THEN YtParse(lines, i + 1, count, max_duration, results)
    ELSE LET appended == Append(results, YtCandidate(i, VideoDuration(lines[i])))
         IN IF Len(appended) >= count THEN appended
            ELSE YtParse(lines, i + 1, count, max_duration, appended)

\* search_youtube(query, count, max_duration) on a finished yt-dlp run.
\* outcome: "ok" (returncode 0), "nonzero", "timeout", "exception".
search_youtube(outcome, lines, count, max_duration) ==
    IF outcome = "ok" THEN YtParse(lines, 1, count, max_duration, << >>)
    ELSE << >>

\* ----------------------------------------------------- search_pexels_videos
\* "duration": video.get("duration", 0): the seconds of the item, 0 when the
\* key is missing, and None when the response holds "duration": null, which
\* NullDuration stands for.
NullDuration == 0 - 1
PexelsCandidate(i, d) == [source |-> "pexels", id |-> i, duration |-> d]

\* search_pexels_videos: one candidate per video of the response, in order.
PexelsCandidates(videos) == [i \in 1..Len(videos) |-> PexelsCandidate(i, videos[i])]

\* One entry of an item's "video_files": its link, its width (None: the
\* response holds "width": null) and its height.
Rendition(link, width, height) == [link |-> link, width |-> width, height |-> height]
\* max(files, key=lambda x: x.get("width", 0)) compares the keys of any two
\* entries it meets: a null width among two or more entries raises TypeError.
MaxRaises(files) ==
    Len(files) >= 2 /\ \E k \in DOMAIN files : files[k].width.isNone
\* max(files, key=...): the first entry whose key no later entry exceeds;
\* best is the index kept so far, k the next entry to compare.
RECURSIVE MaxByWidth(_, _, _)
MaxByWidth(files, best, k) ==
    IF k > Len(files) THEN best
    ELSE IF files[k].width.v > files[best].width.v
         THEN MaxByWidth(files, k, k + 1)
    ELSE MaxByWidth(files, best, k + 1)
\* "best = max(files, ...) if files else None; if best: results.append({...})"
\* for the item at position i of the response.
BestCandidate(i, item) ==
    IF item.files = << >> THEN << >>
    ELSE LET best == item.files[MaxByWidth(item.files, 1, 2)]
         IN << [source |-> "pexels", id |-> i, duration |-> item.duration,
                url |-> best.link, width |-> best.width, height |-> best.height] >>
RECURSIVE BestCandidates(_, _)
BestCandidates(items, i) ==
    IF i > Len(items) THEN << >>
    ELSE BestCandidate(i, items[i]) \o BestCandidates(items, i + 1)
\* search_pexels_videos(query, count) after the HTTP request: the loop over
\* data["videos"]; an exception anywhere in it ends in "return []".
search_pexels_videos(outcome, items) ==
    IF outcome # "ok" THEN << >>
    ELSE IF \E i \in DOMAIN items : MaxRaises(items[i].files) THEN << >>
    ELSE BestCandidates(items, 1)

\* search_pexels_videos: "if not api_key or not REQUESTS_AVAILABLE: return []"
SkipsHttpMutNoneOnly(key, requests_available) ==
    key = "None" \/ ~requests_available
SkipsHttp(key, requests_available) == ~TruthyStr(key) \/ ~requests_available
\* search_pexels: "if not api_key: return []"
SkipsHttpImage(key) == ~TruthyStr(key)

\* VideoHandler.execute: v.get("duration", 0) <= duration * 1.5
PexelsKeeps(v, duration) == 2 * v.duration <= 3 * duration

\* VideoHandler.execute: [v for v in results if v.get("duration", 0) <= duration * 1.5]
RECURSIVE KeptWithin(_, _, _)
KeptWithin(cands, duration, i) ==
    IF i > Len(cands) THEN << >>
    ELSE IF PexelsKeeps(cands[i], duration)
         THEN << cands[i] >> \o KeptWithin(cands, duration, i + 1)
    ELSE KeptWithin(cands, duration, i + 1)

\* VideoHandler.execute: the comparison None <= duration * 1.5 of the list
\* comprehension raises TypeError, and execute has no handler around it.
FilterRaises(cands, duration) ==
    Truthy(duration) /\ \E i \in DOMAIN cands : cands[i].duration = NullDuration

\* VideoHandler.execute: "if duration: results = [...]"
FilterDuration(cands, duration) ==
    IF Truthy(duration) THEN KeptWithin(cands, duration.v, 1) ELSE cands

\* VideoHandler.execute / ImageHandler.execute: results[:count]
Selected(cands, count) == Take(cands, count)

\* VideoHandler.execute / ImageHandler.execute, the loop body:
\* "path = self.download_video(...); if path: downloaded.append(str(path))"
CollectedMutDrop(downloaded, file, outcome) ==
    IF outcome = "ok" THEN Append(downloaded, file) ELSE << >>
Collected(downloaded, file, outcome) ==
    IF outcome = "ok" THEN Append(downloaded, file) ELSE downloaded

\* ------------------------------------------------- download_youtube: trimming
\* need_trim = duration or start or end
NeedTrim(duration, start, end) == Truthy(Or(Or(duration, start), end))
\* trim_start = start or 0
TrimStart(start) == Or(start, Num(0))
\* trim_duration = duration or (end - trim_start if end else None)
TrimDuration(duration, start, end) ==
    Or(duration, IF Truthy(end) THEN Num(end.v - TrimStart(start).v) ELSE None)
\* trim_start + trim_duration if trim_duration else None
TrimEnd(duration, start, end) ==
    LET td == TrimDuration(duration, start, end)
    IN IF Truthy(td) THEN Num(TrimStart(start).v + td.v) ELSE None

\* ------------------------------------------------------ trim_video: command
\* "if start and start > 0: cmd.extend(['-ss', str(start)])"
SeekArg(start) == IF Truthy(start) /\ start.v > 0 THEN start ELSE None
\* "if end: duration = end - (start or 0); cmd.extend(['-t', str(duration)])"
SegmentArgMutEnd(start, end) == IF Truthy(end) THEN end ELSE None
SegmentArgMutZero(start, end) ==
    IF Truthy(end) THEN Num(end.v - Or(start, Num(0)).v) ELSE Num(0)
SegmentArg(start, end) ==
    IF Truthy(end) THEN Num(end.v - Or(start, Num(0)).v) ELSE None

\* The seconds [from, to) of a source that a file holds; to = None: up to
\* the source's end.
Whole == [from |-> 0, to |-> None]
\* trim_video: what the command "ffmpeg -y [-ss ss] -i input [-t t] ... output"
\* puts in the output, of an input holding `content`.
CutWindow(content, ss, t) ==
    LET from == content.from + (IF ss.isNone THEN 0 ELSE ss.v)
        to == IF t.isNone THEN content.to
              ELSE IF content.to.isNone THEN Num(from + t.v)
              ELSE Num(Min(from + t.v, content.to.v))
    IN [from |-> from, to |-> to]

\* trim_video: "if result.returncode == 0: input_path.unlink()"
TrimDeletesInputMutAlways(outcome) == TRUE
TrimDeletesInput(outcome) == outcome = "ok"

\* trim_video: the path returned after the encoder ran.
TrimReturnMutInput(input_path, outcome) == input_path
TrimReturn(input_path, outcome) ==
    IF outcome = "ok" THEN TrimOutputPath(input_path) ELSE input_path

\* ------------------------------------------------------ execute: failure hint
\* "api_key = self.config.get('PEXELS_API_KEY'); if not api_key: ... help ..."
NoVideosFailureMutNoHelp(key) == Failure("No videos found", "")
NoVideosFailure(key) ==
    IF ~TruthyStr(key)
    THEN Failure("Download failed. YouTube network issue and PEXELS_API_KEY not configured",
                 "Please retry or configure PEXELS_API_KEY")
    ELSE Failure("No videos found", "")

NoImagesFailure(key) ==
    IF ~TruthyStr(key)
    THEN Failure("PEXELS_API_KEY required",
                 "Please run: export PEXELS_API_KEY=your_key")
    ELSE Failure("No images found", "")

\* VideoHandler.execute: "path = self.download_youtube(...); if path: return
\* {success: True, count: 1, files: [str(path)], ...}"
YoutubeResultMutFail(path) == Failure("YouTube download failed", "")
YoutubeResultMutTwice(path) == Success(<< path, path >>)
YoutubeResult(path) == Success(<< path >>)

\* Whether the child of an external step is still alive when the step is over.
\* search_youtube and trim_video use subprocess.run(..., timeout=...), which
\* kills the child on timeout; download_youtube uses Popen and
\* process.wait(timeout=300), which raises TimeoutExpired and leaves it alive.
ChildLeftRunning(step, outcome) == step = "download" /\ outcome = "timeout"
\* The children a step leaves behind.
Leftover(step, outcome) ==
    IF ChildLeftRunning(step, outcome) THEN { step } ELSE {}

\* VideoHandler.execute: where control goes when download_youtube returned None:
\* the URL branch returns a failure, the query branch falls through to Pexels.
AfterYoutubeNoneMutFail(url) == "fail"
AfterYoutubeNoneMutFallback(url) == "px_search"
AfterYoutubeNoneMutRetry(url) == IF TruthyStr(url) THEN "fail" ELSE "yt_search"
AfterYoutubeNone(url) == IF TruthyStr(url) THEN "fail" ELSE "px_search"


\* ================================================================== state
VARIABLES
    ytdlp_available,     \* VideoHandler.ytdlp_available
    ffmpeg_available,    \* VideoHandler.ffmpeg_available
    REQUESTS_AVAILABLE,  \* module flag: "import requests" succeeded
    api_key,             \* config.get("PEXELS_API_KEY"): "None", "" or a key
    req,                 \* the arguments of the call
    pc,                  \* where the call stands
    result,              \* the dict execute returned
    raised,              \* the exception that escaped the call, "" if none
    fs,                  \* files existing in the output directory
    deleted,             \* files unlinked during the call
    results,             \* local "results": the candidate list
    raw,                 \* what the provider answered, before filtering
    idx,                 \* loop index i of the download loop
    downloaded,          \* local "downloaded" / the path download_youtube holds
    trimArgs,            \* arguments of the pending trim_video call
    trimLog,             \* trim_video calls made: arguments, outcome, value returned
    ffmpegCalls,         \* ffmpeg processes started: -ss, -t, input, output
    attempts,            \* download processes / HTTP downloads started
    calls,               \* how often each search / HTTP endpoint was called
    running,             \* child processes alive past their step's timeout or return
    call,                \* a function called on its own: its name and arguments
    ret,                 \* what that call returned
    runPc,               \* BaseHandler.run: the phase it is about to call
    trace,               \* BaseHandler.run: the phases called and how each ended
    held,                \* BaseHandler.run: local "result"
    runResult,           \* BaseHandler.run: the dict it returned
    cache,               \* Config._env_cache
    environ,             \* os.environ
    pinned,              \* per key, the value last set or first read with a value
    last                 \* the last Config operation: arguments, outcome, state before

env == << ytdlp_available, ffmpeg_available, REQUESTS_AVAILABLE, api_key >>
trimVars == << trimArgs, trimLog, ffmpegCalls >>
runVars == << runPc, trace, held, runResult >>
configVars == << cache, environ, pinned, last >>
unitVars == << call, ret, runVars, configVars >>
handlerVars == << ytdlp_available, ffmpeg_available, REQUESTS_AVAILABLE, api_key, req, pc,
                  result, raised, fs, deleted, results, raw, idx, downloaded,
                  trimArgs, trimLog, ffmpegCalls, attempts, calls, running >>
vars == << handlerVars, unitVars >>

\* ----------------------------------------------------------------- inputs
\* (start, end) windows a caller passes: none, only a start, only an end,
\* both, start = 0, end < start, a negative start, a negative end.
Windows ==
    { << None, None >>, << Num(60), None >>, << None, Num(90) >>,
      << Num(60), Num(90) >>, << Num(0), None >>, << Num(60), Num(30) >>,
      << Num(0 - 5), Num(90) >>, << None, Num(0 - 5) >> }
QueryWindows == { << None, None >>, << Num(60), Num(90) >> }
Durations == { None, Num(60) }

Request(handler, query, url, count, duration, w, ys) ==
    [handler |-> handler, query |-> query, url |-> url, count |-> count,
     duration |-> duration, start |-> w[1], end |-> w[2], youtube_search |-> ys]

\* VideoHandler.execute(url=...): cli.py cmd_youtube
UrlRequests ==
    { Request("video", "None", "u", 1, d, w, TRUE) : d \in Durations, w \in Windows }
\* VideoHandler.execute(query=...): cli.py cmd_video
QueryRequests ==
    { Request("video", "sunset", "None", c, d, w, ys) :
        c \in 1..MaxCount, d \in Durations, w \in QueryWindows, ys \in BOOLEAN }
\* VideoHandler.execute() with neither a query nor a URL
EmptyRequests == { Request("video", "None", "None", 1, None, << None, None >>, TRUE) }
\* ImageHandler.execute(query, count): cli.py cmd_image
ImageRequests ==
    { Request("image", "sunset", "None", c, None, << None, None >>, TRUE) :
        c \in 1..MaxCount }
\* VideoHandler.trim_video(input_path, start, end) called on an existing file
TrimRequests ==
    { Request("trim", "None", "None", 1, None, w, TRUE) : w \in Windows }

\* Durations (seconds) of the records yt-dlp's search prints; None: no duration.
YtDurations == { None, Num(45), Num(200), Num(400) }
YtLines == { BadLine, NonRecordLine } \cup { RecordLine(d) : d \in YtDurations }
\* Durations (seconds) of the videos of a Pexels response.
PexelsDurations == { NullDuration, 0, 45, 100 }

NoTrimArgs == [input |-> UserFile, start |-> None, end |-> None]
\* Config: the keys and values used, and the mark of a key that is not in a
\* dict (os.environ.get(key) is None, key not in self._env_cache).
Keys == { "PEXELS_API_KEY", "OUTPUT_DIR" }
Values == { "v1", "v2" }
Absent == "absent"
\* No function has been called on its own.
NoCall == [fn |-> "none"]
NoCalls == [search_youtube |-> 0, search_pexels_videos |-> 0, search_pexels |-> 0,
            http_search |-> 0, download_youtube |-> 0]

\* The state after the handler is constructed: __init__ probed the tools.
Init ==
    /\ ytdlp_available \in BOOLEAN
    /\ ffmpeg_available \in BOOLEAN
    /\ REQUESTS_AVAILABLE \in BOOLEAN
    /\ api_key \in { "None", "", "key" }
    /\ req = Request("none", "None", "None", 1, None, << None, None >>, TRUE)
    /\ pc = "idle"
    /\ result = NoResult
    /\ raised = ""
    /\ fs = { UserFile }
    /\ deleted = {}
    /\ results = << >>
    /\ raw = << >>
    /\ idx = 0
    /\ downloaded = << >>
    /\ trimArgs = NoTrimArgs
    /\ trimLog = << >>
    /\ ffmpegCalls = << >>
    /\ attempts = << >>
    /\ calls = NoCalls
    /\ running = {}
    /\ call = NoCall
    /\ ret = << >>
    /\ runPc = "idle"
    /\ trace = << >>
    /\ held = NoResult
    /\ runResult = NoResult
    /\ cache = [k \in Keys |-> Absent]
    /\ environ = [k \in Keys |-> Absent]
    /\ pinned = [k \in Keys |-> Absent]
    /\ last = [op |-> "none"]

\* ------------------------------------------------------- return statements
Return(r) == /\ result' = r
             /\ pc' = "done"
             /\ raised' = raised
Raise(e) == /\ raised' = e
            /\ pc' = "raised"
            /\ result' = result
Goto(l) == /\ pc' = l
           /\ result' = result
           /\ raised' = raised


\* ================================================================ actions
ProcessOutcomes == { "ok", "nonzero", "timeout", "exception" }
HttpOutcomes == { "ok", "non200", "exception" }

\* One started download: the provider and duration of the candidate it was
\* started for, the file it writes, and how it ended.
Attempt(candidate, file, outcome) ==
    [source |-> candidate.source, duration |-> candidate.duration,
     file |-> file, outcome |-> outcome]

Count(name) == calls' = [calls EXCEPT ![name] = @ + 1]

\* VideoHandler.execute, up to its first external call.
VideoExecute(r) ==
    /\ pc = "idle"
    /\ req' = r
    /\ IF TruthyStr(r.url)
       THEN \* download_youtube(url=url, ...)
            /\ Count("download_youtube")
            /\ IF ~ytdlp_available
               THEN Raise("DependencyError")
               ELSE Goto("yt_download")
       ELSE IF TruthyStr(r.query)
       THEN IF r.youtube_search /\ ytdlp_available
            THEN \* download_youtube(query=query, ...)
                 /\ Count("download_youtube")
                 /\ Goto("yt_search")
            ELSE /\ Goto("px_search")
                 /\ calls' = calls
       ELSE /\ Return(Failure("Please provide search keyword or YouTube URL", ""))
            /\ calls' = calls
    /\ UNCHANGED << unitVars, env, running, fs, deleted, results, raw, idx, downloaded, trimVars, attempts >>

\* download_youtube returned None to execute; its locals are gone.
YoutubeReturnedNone ==
    /\ IF AfterYoutubeNone(req.url) = "fail"
       THEN Return(Failure("YouTube download failed", ""))
       ELSE Goto(AfterYoutubeNone(req.url))
    /\ results' = << >>
    /\ raw' = << >>

\* download_youtube: "if not url and query": the restricted search.
YoutubeSearch ==
    /\ pc = "yt_search"
    /\ \E outcome \in ProcessOutcomes :
       \E lines \in SeqsUpTo(YtLines, Min(MaxLines, SearchCount(YT_SEARCH_COUNT, Num(YT_MAX_DURATION)))) :
          /\ outcome # "ok" => lines = << >>
          /\ LET found == search_youtube(outcome, lines, YT_SEARCH_COUNT, Num(YT_MAX_DURATION))
             IN IF found # << >>
                THEN /\ raw' = lines
                     /\ results' = found
                     /\ Goto("yt_download")
                ELSE YoutubeReturnedNone
          /\ running' = running \cup Leftover("search", outcome)
    /\ Count("search_youtube")
    /\ UNCHANGED << unitVars, env, req, fs, deleted, idx, downloaded, trimVars, attempts >>

\* The candidate download_youtube downloads: results[0], or the caller's URL.
YoutubeTarget ==
    IF results # << >> THEN results[1] ELSE [source |-> "url", id |-> 0, duration |-> 0]

\* download_youtube: the yt-dlp download process and what follows it.
\* outcome "no_file": returncode 0 and no file with the template's prefix.
\* outcome "timeout": the child closed its output and process.wait(timeout=300)
\* raised TimeoutExpired.  outcome "hang": the child keeps its output open, and
\* "for line in process.stdout" is still reading after the 300 seconds; the
\* step goes on when (if ever) the child closes its output.
YoutubeDownload ==
    /\ pc \in { "yt_download", "yt_reading" }
    /\ \E outcome \in ProcessOutcomes \cup { "no_file", "hang" } :
          IF outcome = "hang"
          THEN /\ pc = "yt_download"
               /\ Goto("yt_reading")
               /\ running' = running \cup { "download" }
               /\ UNCHANGED << attempts, fs, downloaded, trimArgs, results, raw >>
          ELSE
          \E timestamp \in Timestamps :
          /\ attempts' = Append(attempts, Attempt(YoutubeTarget, YtFile(timestamp), outcome))
          /\ running' = (running \ { "download" }) \cup Leftover("download", outcome)
          /\ IF outcome = "ok"
             THEN /\ fs' = fs \cup { YtFile(timestamp) }
                  /\ downloaded' = << YtFile(timestamp) >>
                  /\ IF NeedTrim(req.duration, req.start, req.end) /\ ffmpeg_available
                     THEN /\ trimArgs' = [input |-> YtFile(timestamp),
                                          start |-> TrimStart(req.start),
                                          end |-> TrimEnd(req.duration, req.start, req.end)]
                          /\ Goto("yt_trim")
                     ELSE /\ trimArgs' = trimArgs
                          /\ Return(YoutubeResult(YtFile(timestamp)))
                  /\ UNCHANGED << results, raw >>
             ELSE /\ YoutubeReturnedNone
                  /\ UNCHANGED << fs, downloaded, trimArgs >>
    /\ UNCHANGED << unitVars, env, req, deleted, idx, trimLog, ffmpegCalls, calls >>

\* VideoHandler.trim_video(input_path, start, end) called directly.
TrimCall(r) ==
    /\ pc = "idle"
    /\ req' = r
    /\ trimArgs' = [input |-> UserFile, start |-> r.start, end |-> r.end]
    /\ Goto("trim")
    /\ UNCHANGED << unitVars, env, running, fs, deleted, results, raw, idx, downloaded, trimLog,
                    ffmpegCalls, attempts, calls >>

\* What the caller of trim_video does with the returned path: download_youtube
\* returns it ("if trimmed: return trimmed"), and execute wraps it in a result.
TrimReturned(path) ==
    IF pc = "yt_trim"
    THEN /\ downloaded' = << path >>
         /\ Return(YoutubeResult(path))
    ELSE /\ downloaded' = downloaded
         /\ Goto("done")

\* VideoHandler.trim_video.
TrimVideo ==
    /\ pc \in { "yt_trim", "trim" }
    /\ LET input_path == trimArgs.input
           output_path == TrimOutputPath(input_path)
       IN IF ~ffmpeg_available
          THEN /\ trimLog' = Append(trimLog, [input |-> input_path, start |-> trimArgs.start,
                                              end |-> trimArgs.end, outcome |-> "skipped",
                                              returned |-> input_path])
               /\ TrimReturned(input_path)
               /\ UNCHANGED << fs, deleted, ffmpegCalls, running >>
          ELSE \E outcome \in ProcessOutcomes :
               /\ ffmpegCalls' = Append(ffmpegCalls,
                                        [input |-> input_path,
                                         ss |-> SeekArg(trimArgs.start),
                                         t |-> SegmentArg(trimArgs.start, trimArgs.end),
                                         output |-> output_path])
               /\ fs' = (IF outcome = "ok" THEN fs \cup { output_path } ELSE fs)
                            \ (IF TrimDeletesInput(outcome) THEN { input_path } ELSE {})
               /\ deleted' = deleted \cup
                             (IF TrimDeletesInput(outcome) THEN { input_path } ELSE {})
               /\ trimLog' = Append(trimLog, [input |-> input_path, start |-> trimArgs.start,
                                              end |-> trimArgs.end, outcome |-> outcome,
                                              returned |-> TrimReturn(input_path, outcome)])
               /\ TrimReturned(TrimReturn(input_path, outcome))
               /\ running' = running \cup Leftover("trim", outcome)
    /\ UNCHANGED << unitVars, env, req, results, raw, idx, trimArgs, attempts, calls >>

\* VideoHandler.execute: search_pexels_videos, the duration filter and the
\* "if not results" return.
PexelsVideoSearch ==
    /\ pc = "px_search"
    /\ \E outcome \in HttpOutcomes :
       \E videos \in SeqsUpTo(PexelsDurations, MaxVideos) :
          /\ outcome # "ok" => videos = << >>
          /\ IF SkipsHttp(api_key, REQUESTS_AVAILABLE)
             THEN /\ outcome = "exception"
                  /\ calls' = [calls EXCEPT !.search_pexels_videos = @ + 1]
             ELSE calls' = [calls EXCEPT !.search_pexels_videos = @ + 1,
                                         !.http_search = @ + 1]
          /\ LET found == IF SkipsHttp(api_key, REQUESTS_AVAILABLE)
                          THEN << >> ELSE PexelsCandidates(videos)
                 kept == FilterDuration(found, req.duration)
             IN IF FilterRaises(found, req.duration)
                THEN /\ raw' = found
                     /\ results' = found
                     /\ Raise("TypeError")
                ELSE /\ raw' = found
                     /\ results' = kept
                     /\ IF kept = << >>
                        THEN Return(NoVideosFailure(api_key))
                        ELSE Goto("px_download")
    /\ idx' = 0
    /\ downloaded' = << >>
    /\ UNCHANGED << unitVars, env, running, req, fs, deleted, trimVars, attempts >>

\* VideoHandler.execute: one iteration of the download loop over
\* results[:count] (download_video), and the return after the last one.
PexelsVideoDownload ==
    /\ pc = "px_download"
    /\ LET selected == Selected(results, req.count)
           video == selected[idx + 1]
           file == PexelsFile(idx + 1)
       IN \E outcome \in HttpOutcomes :
          /\ attempts' = Append(attempts, Attempt(video, file, outcome))
          /\ fs' = IF outcome = "ok" THEN fs \cup { file } ELSE fs
          /\ downloaded' = Collected(downloaded, file, outcome)
          /\ idx' = idx + 1
          /\ IF idx + 1 >= Len(selected)
             THEN Return(Success(downloaded'))
             ELSE Goto("px_download")
    /\ UNCHANGED << unitVars, env, running, req, deleted, results, raw, trimVars, calls >>

\* ImageHandler.execute, up to its first external call.
ImageExecute(r) ==
    /\ pc = "idle"
    /\ req' = r
    /\ IF ~REQUESTS_AVAILABLE THEN Raise("DependencyError") ELSE Goto("img_search")
    /\ UNCHANGED << unitVars, env, running, fs, deleted, results, raw, idx, downloaded, trimVars,
                    attempts, calls >>

\* ImageHandler.execute: search_pexels(query, count * 2) and "if not results".
ImageSearch ==
    /\ pc = "img_search"
    /\ \E outcome \in HttpOutcomes :
       \E n \in 0..MaxPhotos :
          /\ outcome # "ok" => n = 0
          /\ IF SkipsHttpImage(api_key)
             THEN /\ outcome = "exception"
                  /\ calls' = [calls EXCEPT !.search_pexels = @ + 1]
             ELSE calls' = [calls EXCEPT !.search_pexels = @ + 1, !.http_search = @ + 1]
          /\ LET found == IF SkipsHttpImage(api_key) THEN << >>
                          ELSE [i \in 1..n |-> PexelsCandidate(i, 0)]
             IN /\ raw' = found
                /\ results' = found
                /\ IF found = << >>
                   THEN Return(NoImagesFailure(api_key))
                   ELSE Goto("img_download")
    /\ idx' = 0
    /\ downloaded' = << >>
    /\ UNCHANGED << unitVars, env, running, req, fs, deleted, trimVars, attempts >>

\* ImageHandler.execute: one iteration of the download loop over results[:count]
\* (ImageHandler.download), and the return after the last one.
ImageDownload ==
    /\ pc = "img_download"
    /\ LET selected == Selected(results, req.count)
           img == selected[idx + 1]
           file == ImageFile(idx + 1)
       IN \E outcome \in HttpOutcomes :
          /\ attempts' = Append(attempts, Attempt(img, file, outcome))
          /\ fs' = IF outcome = "ok" THEN fs \cup { file } ELSE fs
          /\ downloaded' = Collected(downloaded, file, outcome)
          /\ idx' = idx + 1
          /\ IF idx + 1 >= Len(selected)
             THEN Return(Success(downloaded'))
             ELSE Goto("img_download")
    /\ UNCHANGED << unitVars, env, running, req, deleted, results, raw, trimVars, calls >>

Next ==
    \/ \E r \in UrlRequests \cup QueryRequests \cup EmptyRequests : VideoExecute(r)
    \/ YoutubeSearch
    \/ YoutubeDownload
    \/ \E r \in TrimRequests : TrimCall(r)
    \/ TrimVideo
    \/ PexelsVideoSearch
    \/ PexelsVideoDownload
    \/ \E r \in ImageRequests : ImageExecute(r)
    \/ ImageSearch
    \/ ImageDownload

Spec == Init /\ [][Next]_vars

\* ============================================ functions called on their own
\* max_duration arguments: unset, 0, an explicit limit, download_youtube's 300.
MaxDurations == { None, Num(0), Num(60), Num(YT_MAX_DURATION) }

\* VideoHandler.search_youtube(query, count, max_duration) called directly;
\* yt-dlp prints at most the search_count entries the command asks for.
SearchYoutubeCall ==
    /\ call = NoCall
    /\ \E count \in 1..MaxCount, max_duration \in MaxDurations, outcome \in ProcessOutcomes :
       \E lines \in SeqsUpTo(YtLines, Min(MaxLines, SearchCount(count, max_duration))) :
          /\ outcome # "ok" => lines = << >>
          /\ ~ytdlp_available => (outcome = "ok" /\ lines = << >>)
          /\ call' = [fn |-> "search_youtube", count |-> count,
                      max_duration |-> max_duration, ran |-> ytdlp_available,
                      requested |-> SearchCount(count, max_duration),
                      outcome |-> outcome, lines |-> lines]
          /\ ret' = IF ytdlp_available
                    THEN search_youtube(outcome, lines, count, max_duration)
                    ELSE << >>
    /\ UNCHANGED << handlerVars, runVars, configVars >>

\* Widths of renditions: null, or pixels.
Widths == { None, Num(640), Num(1920) }
\* The video_files of an item: entry k links to k and is 360 * k pixels high.
RenditionLists ==
    { [k \in 1..Len(ws) |-> Rendition(k, ws[k], 360 * k)] : ws \in SeqsUpTo(Widths, MaxFiles) }
Items == { [duration |-> 45, files |-> files] : files \in RenditionLists }

\* VideoHandler.search_pexels_videos(query, count) called directly.
SearchPexelsVideosCall ==
    /\ call = NoCall
    /\ \E outcome \in HttpOutcomes :
       \E items \in SeqsUpTo(Items, MaxVideos) :
          /\ outcome # "ok" => items = << >>
          /\ SkipsHttp(api_key, REQUESTS_AVAILABLE) => (outcome = "ok" /\ items = << >>)
          /\ call' = [fn |-> "search_pexels_videos",
                      ran |-> ~SkipsHttp(api_key, REQUESTS_AVAILABLE),
                      outcome |-> outcome, items |-> items]
          /\ ret' = IF SkipsHttp(api_key, REQUESTS_AVAILABLE) THEN << >>
                    ELSE search_pexels_videos(outcome, items)
    /\ UNCHANGED << handlerVars, runVars, configVars >>

\* VideoHandler.execute: the duration filter applied to the candidates
\* search_pexels_videos returned.
FilterDurationCall ==
    /\ call = NoCall
    /\ \E duration \in MaxDurations :
       \E videos \in SeqsUpTo(PexelsDurations, MaxVideos) :
          LET cands == PexelsCandidates(videos)
          IN /\ call' = [fn |-> "filter_duration", duration |-> duration,
                         cands |-> cands,
                         raised |-> IF FilterRaises(cands, duration)
                                    THEN "TypeError" ELSE ""]
             /\ ret' = IF FilterRaises(cands, duration) THEN << >>
                       ELSE FilterDuration(cands, duration)
    /\ UNCHANGED << handlerVars, runVars, configVars >>

UnitNext ==
    \/ SearchYoutubeCall
    \/ SearchPexelsVideosCall
    \/ FilterDurationCall

UnitSpec == Init /\ [][UnitNext]_vars

\* ========================================================= BaseHandler.run
\* The exception classes a phase raises: SkillError (and its subclasses), or
\* another subclass of Exception.
ExceptionKinds == { "SkillError", "Exception" }
\* run: "except SkillError ... except Exception": the classes run catches.
CaughtMutSkillOnly(kind) == kind = "SkillError"
Caught(kind) == kind \in { "SkillError", "Exception" }
\* run: the dicts its two handlers return.
Converted(kind) ==
    [returned |-> TRUE, success |-> FALSE, count |-> 0, files |-> << >>,
     error |-> kind, help |-> ""]
\* run: "if not self.pre_execute(**kwargs): return {...}"
AfterPreExecute(ok) == IF ok THEN "execute" ELSE "returned"

Called(phase, outcome) == trace' = Append(trace, [phase |-> phase, outcome |-> outcome])
\* An exception raised by a phase reaches run's handlers.
RunRaise(kind) ==
    IF Caught(kind)
    THEN runPc' = "returned" /\ runResult' = Converted(kind)
    ELSE runPc' = "escaped" /\ runResult' = runResult

\* handler.run(**kwargs) is called.
RunCall ==
    /\ runPc = "idle"
    /\ runPc' = "pre_execute"
    /\ UNCHANGED << handlerVars, configVars, call, ret, trace, held, runResult >>

\* run: self.pre_execute(**kwargs) returns a true or a false value, or raises.
RunPreExecute ==
    /\ runPc = "pre_execute"
    /\ \E outcome \in { "true", "false" } \cup ExceptionKinds :
          /\ Called("pre_execute", outcome)
          /\ IF outcome \in ExceptionKinds THEN RunRaise(outcome)
             ELSE IF AfterPreExecute(outcome = "true") = "execute"
             THEN runPc' = "execute" /\ runResult' = runResult
             ELSE /\ runPc' = "returned"
                  /\ runResult' = Failure("Pre-execution check failed", "")
    /\ UNCHANGED << handlerVars, configVars, call, ret, held >>

\* run: result = self.execute(**kwargs) returns a dict or raises.
RunExecute ==
    /\ runPc = "execute"
    /\ \E outcome \in { "success", "failure" } \cup ExceptionKinds :
          /\ Called("execute", outcome)
          /\ IF outcome \in ExceptionKinds
             THEN RunRaise(outcome) /\ held' = held
             ELSE /\ runPc' = "post_execute"
                  /\ runResult' = runResult
                  /\ held' = IF outcome = "success" THEN Success(<< UserFile >>)
                             ELSE Failure("No videos found", "")
    /\ UNCHANGED << handlerVars, configVars, call, ret >>

\* run: result = self.post_execute(result, **kwargs); return result
RunPostExecute ==
    /\ runPc = "post_execute"
    /\ \E outcome \in { "returned" } \cup ExceptionKinds :
          /\ Called("post_execute", outcome)
          /\ IF outcome \in ExceptionKinds
             THEN RunRaise(outcome)
             ELSE runPc' = "returned" /\ runResult' = held
    /\ UNCHANGED << handlerVars, configVars, call, ret, held >>

RunNext ==
    \/ RunCall
    \/ RunPreExecute
    \/ RunExecute
    \/ RunPostExecute

RunSpec == Init /\ [][RunNext]_vars

\* ================================================================== Config
\* Config.get: "if key in self._env_cache"
CacheHitMutNever(c, key) == FALSE
CacheHit(c, key) == c[key] # Absent

\* Config.get(key, default, required): the value returned ("raised" when it
\* raises ConfigError) and the cache it leaves.
GetOutcome(c, os_environ, key, default, required) ==
    IF CacheHit(c, key) THEN [returned |-> c[key], raised |-> "", cache |-> c]
    ELSE IF os_environ[key] = Absent
         THEN IF required
              THEN [returned |-> "raised", raised |-> "ConfigError", cache |-> c]
              ELSE [returned |-> default, raised |-> "", cache |-> c]
    ELSE [returned |-> os_environ[key], raised |-> "", cache |-> [c EXCEPT ![key] = os_environ[key]]]

\* config.get(key, default, required)
ConfigGet ==
    \E key \in Keys, default \in { "None", "d" }, required \in BOOLEAN :
       LET o == GetOutcome(cache, environ, key, default, required)
       IN /\ cache' = o.cache
          /\ environ' = environ
          /\ pinned' = IF pinned[key] = Absent /\ o.raised = "" /\ environ[key] # Absent
                       THEN [pinned EXCEPT ![key] = environ[key]]
                       ELSE pinned
          /\ last' = [op |-> "get", key |-> key, default |-> default,
                      required |-> required, returned |-> o.returned,
                      raised |-> o.raised, pinned |-> pinned[key],
                      env |-> environ[key], cache |-> cache]
          /\ UNCHANGED << handlerVars, call, ret, runVars >>

\* config.set(key, value): os.environ[key] = value; self._env_cache[key] = value
ConfigSet ==
    \E key \in Keys, value \in Values :
       /\ environ' = [environ EXCEPT ![key] = value]
       /\ cache' = [cache EXCEPT ![key] = value]
       /\ pinned' = [pinned EXCEPT ![key] = value]
       /\ last' = [op |-> "set", key |-> key, value |-> value]
       /\ UNCHANGED << handlerVars, call, ret, runVars >>

\* The environment variable is changed or removed behind the Config object.
EnvironChange ==
    \E key \in Keys, value \in Values \cup { Absent } :
       /\ environ[key] # value
       /\ environ' = [environ EXCEPT ![key] = value]
       /\ last' = [op |-> "environ", key |-> key, value |-> value]
       /\ UNCHANGED << handlerVars, call, ret, runVars, cache, pinned >>

ConfigNext ==
    \/ ConfigGet
    \/ ConfigSet
    \/ EnvironChange

ConfigSpec == Init /\ [][ConfigNext]_vars


\* ================================================================= claims
IsQueryRequest ==
    req.handler = "video" /\ TruthyStr(req.query) /\ ~TruthyStr(req.url)
EncoderFailures == { "nonzero", "timeout", "exception" }
\* The primary path produced a file.
YoutubeYielded ==
    \E i \in DOMAIN attempts :
        attempts[i].source = "youtube" /\ attempts[i].outcome = "ok"

\* C1: a query request whose primary (YouTube) path was attempted and yielded
\* no file, and every query request that ends in a failure result, has called
\* the secondary Pexels search before the result was returned.
C1_SecondaryBeforeFailure ==
    (pc = "done" /\ IsQueryRequest
        /\ (~result.success \/ (calls.download_youtube > 0 /\ ~YoutubeYielded)))
    => calls.search_pexels_videos >= 1

\* C1 witness: the primary download exited 0 without an output file, Pexels was
\* searched, and only then the request failed.
C1_Witness ==
    /\ pc = "done" /\ IsQueryRequest /\ ~result.success
    /\ calls.download_youtube = 1
    /\ \E i \in DOMAIN attempts :
           attempts[i].source = "youtube" /\ attempts[i].outcome = "no_file"
    /\ calls.search_pexels_videos = 1

\* A file was downloaded from a candidate of the provider with this duration.
DownloadedFrom(source, a) == a.source = source /\ a.outcome = "ok"

C3_SuccessHasFiles ==
    (result.returned /\ result.success)
    => (Len(result.files) >= 1 /\ result.count >= 1 /\ result.error = "")

\* C4: no exception escapes execute: every call ends with a returned result.
C4_NoEscapingException ==
    req.handler \in { "video", "image" } => (raised = "" /\ pc # "raised")

\* C5: after an encoder failure in trim_video the input file exists, was not
\* deleted and is the value returned; the request that trimmed it reports
\* success with exactly that untrimmed file.
C5_EncoderFailureKeepsInput ==
    \A i \in DOMAIN trimLog :
        trimLog[i].outcome \in EncoderFailures =>
            /\ trimLog[i].input \in fs
            /\ trimLog[i].input \notin deleted
            /\ trimLog[i].returned = trimLog[i].input
            /\ (req.handler = "video" /\ pc = "done")
                   => (result.success /\ result.files = << trimLog[i].input >>)

\* C5 witness: the encoder timed out while trimming a downloaded video and the
\* request has returned.
C5_Witness ==
    /\ pc = "done" /\ req.handler = "video"
    /\ \E i \in DOMAIN trimLog : trimLog[i].outcome = "timeout"
    /\ result.success

\* A window the caller must not pass: a negative start or end, or end < start.
InvalidWindow(start, end) ==
    \/ ~start.isNone /\ start.v < 0
    \/ ~end.isNone /\ end.v < 0
    \/ ~start.isNone /\ ~end.isNone /\ end.v < start.v

\* C6: for a window with end < start or a negative start or end, no ffmpeg
\* process is ever started.
C6_InvalidWindowNeverEncoded ==
    InvalidWindow(req.start, req.end) => ffmpegCalls = << >>

\* C7: an encoder run with exit code 0 deletes the input and returns the
\* trimmed output, a path other than the input; in every other case the input
\* is kept, and nothing else is ever deleted.
C7_TrimSuccessReplacesInput ==
    /\ \A i \in DOMAIN trimLog :
           IF trimLog[i].outcome = "ok"
           THEN /\ trimLog[i].input \in deleted
                /\ trimLog[i].input \notin fs
                /\ trimLog[i].returned # trimLog[i].input
                /\ trimLog[i].returned \in fs
           ELSE /\ trimLog[i].input \notin deleted
                /\ trimLog[i].input \in fs
    /\ \A f \in deleted :
           \E i \in DOMAIN trimLog : trimLog[i].input = f /\ trimLog[i].outcome = "ok"

\* C7 witness: the encoder exited with code 0.
C7_Witness ==
    /\ pc = "done"
    /\ \E i \in DOMAIN trimLog : trimLog[i].outcome = "ok"

\* Files written during the request: finished downloads and encoder outputs.
Written ==
    { attempts[i].file : i \in { j \in DOMAIN attempts : attempts[j].outcome = "ok" } }
    \cup { trimLog[i].returned : i \in { j \in DOMAIN trimLog : trimLog[j].outcome = "ok" } }

\* C8: every file a returned result lists was written during the request,
\* exists and was not deleted; a deleted file is the input of a successful
\* trim, and the result lists the trimmed replacement instead.
C8_ReturnedFilesPersist ==
    /\ result.returned =>
           \A i \in DOMAIN result.files :
               /\ result.files[i] \in Written
               /\ result.files[i] \in fs
               /\ result.files[i] \notin deleted
    /\ (req.handler = "video" /\ pc = "done") =>
           \A f \in deleted :
               \E i \in DOMAIN trimLog :
                   /\ trimLog[i].input = f
                   /\ trimLog[i].outcome = "ok"
                   /\ result.files = << trimLog[i].returned >>

\* C8 witness: a request returned the trimmed replacement of a deleted
\* intermediate file.
C8_Witness ==
    /\ pc = "done" /\ req.handler = "video" /\ result.success
    /\ \E timestamp \in Timestamps :
           /\ deleted = { YtFile(timestamp) }
           /\ result.files = << TrimOutputPath(YtFile(timestamp)) >>

\* The YouTube records that pass the restricted search's duration filter.
YtSurvivors == YtParse(raw, 1, Len(raw) + 1, Num(YT_MAX_DURATION), << >>)
\* The candidates surviving the duration filter on the path that answered.
Survivors == IF YoutubeYielded THEN YtSurvivors ELSE results
\* The downloads started on the path that answered.
AnsweringAttempts ==
    LET Mine(a) == a.source = (IF YoutubeYielded THEN "youtube" ELSE "pexels")
    IN SelectSeq(attempts, Mine)

\* C9: a successful video query request for count = n with m >= n surviving
\* candidates downloads exactly the first n survivors, in the provider's order.
C9_FirstNSurvivorsDownloaded ==
    (pc = "done" /\ IsQueryRequest /\ result.success /\ Len(Survivors) >= req.count)
    => /\ Len(AnsweringAttempts) = req.count
       /\ \A i \in 1..req.count :
              AnsweringAttempts[i].duration = Survivors[i].duration
       /\ (\A i \in 1..req.count : AnsweringAttempts[i].outcome = "ok")
              => Len(result.files) = req.count

\* No candidate survived on either path: the YouTube path started no download
\* and the provider search (after the duration filter) left nothing.
NoCandidateSurvived ==
    /\ pc = "done"
    /\ attempts = << >>
    /\ results = << >>
    /\ \/ IsQueryRequest /\ calls.search_pexels_videos = 1
       \/ req.handler = "image" /\ calls.search_pexels = 1

\* C10: when no candidate survives, the result is a failure that carries a
\* help hint exactly when PEXELS_API_KEY is absent (None or empty), and then
\* its error names the missing key.
C10_HelpIffKeyAbsent ==
    NoCandidateSurvived =>
        /\ result.returned /\ ~result.success
        /\ (result.help # "") <=> ~TruthyStr(api_key)
        /\ ~TruthyStr(api_key) =>
               result.error \in
                   { "Download failed. YouTube network issue and PEXELS_API_KEY not configured",
                     "PEXELS_API_KEY required" }
        /\ TruthyStr(api_key) => result.error \in { "No videos found", "No images found" }

\* C10 witness: the downloader is unavailable, the key is absent, and the video
\* request failed with a help hint.
C10_Witness ==
    /\ NoCandidateSurvived /\ IsQueryRequest
    /\ ~ytdlp_available /\ api_key = "None"
    /\ ~result.success /\ result.help # ""


\* The downloads started on the secondary (Pexels video) path.
PexelsAttempts ==
    LET Mine(a) == a.source = "pexels" IN SelectSeq(attempts, Mine)
\* The files of the downloads of a sequence of attempts that succeeded, in order.
RECURSIVE FilesOfOk(_)
FilesOfOk(as) ==
    IF as = << >> THEN << >>
    ELSE IF Head(as).outcome = "ok" THEN << Head(as).file >> \o FilesOfOk(Tail(as))
    ELSE FilesOfOk(Tail(as))

\* C11: on the secondary path every selected candidate gets its download
\* attempt whatever happened to the others, and the result lists exactly the
\* files of the attempts that succeeded, in order, with count = their number.
C11_SiblingDownloadsIndependent ==
    (pc = "done" /\ IsQueryRequest /\ results # << >>
        /\ calls.search_pexels_videos = 1)
    => /\ Len(PexelsAttempts) = Len(Selected(results, req.count))
       /\ result.success
       /\ result.files = FilesOfOk(PexelsAttempts)
       /\ result.count = Len(FilesOfOk(PexelsAttempts))
       /\ result.count = Len(result.files)

\* C11 witness: the first of two selected downloads failed, the second one
\* succeeded and is the one file of the result.
C11_Witness ==
    /\ pc = "done" /\ IsQueryRequest /\ calls.search_pexels_videos = 1
    /\ Len(PexelsAttempts) = 2
    /\ PexelsAttempts[1].outcome # "ok"
    /\ PexelsAttempts[2].outcome = "ok"
    /\ result.count = 1
    /\ result.files = << PexelsFile(2) >>


\* C12: every external process step enforces its timeout: no step is still
\* waiting for its child after the timeout has passed, and no child process
\* is alive once its step is over.
C12_TimeoutsEnforced ==
    /\ pc # "yt_reading"
    /\ running = {}


\* C13: with PEXELS_API_KEY absent (None) or empty, no HTTP request is ever sent
\* to the provider's search endpoint, and a call of search_pexels_videos or
\* search_pexels leaves an empty candidate list and raises nothing.
C13_NoKeyNoHttp ==
    ~TruthyStr(api_key) =>
        /\ calls.http_search = 0
        /\ (calls.search_pexels_videos >= 1 \/ calls.search_pexels >= 1)
               => /\ raw = << >>
                  /\ results = << >>
                  /\ raised = ""
                  /\ \A i \in DOMAIN attempts : attempts[i].source = "youtube"

\* C13 witness: search_pexels_videos was called with an empty key.
C13_Witness ==
    /\ api_key = "" /\ REQUESTS_AVAILABLE
    /\ calls.search_pexels_videos = 1
    /\ calls.http_search = 0


IsUrlRequest == req.handler = "video" /\ TruthyStr(req.url)

C15_ScenarioA ==
    (pc = "done" /\ IsQueryRequest /\ req.count = 1 /\ req.duration = Num(60)
        /\ req.youtube_search /\ ytdlp_available
        /\ YoutubeYielded
        /\ raw = << RecordLine(Num(45)) >>)
    => (result.success /\ result.count = 1 /\ Len(result.files) = 1)

\* C15 witness: that request has returned its one file.
C15_Witness ==
    /\ pc = "done" /\ IsQueryRequest /\ req.count = 1 /\ req.duration = Num(60)
    /\ req.start = None /\ req.end = None
    /\ YoutubeYielded
    /\ raw = << RecordLine(Num(45)) >>
    /\ attempts[1].duration = 45
    /\ result.success /\ result.count = 1


\* C17: the name of every downloaded file is a function of (query, index,
\* source) only, on every path including the YouTube download: no name
\* carries the time of the run.
C17_NamesIgnoreTime ==
    \A i \in DOMAIN attempts :
        attempts[i].file = File(attempts[i].file.kind, attempts[i].file.idx)


C19_UrlSkipsSearch ==
    IsUrlRequest =>
        /\ calls.search_youtube = 0
        /\ calls.search_pexels_videos = 0
        /\ calls.search_pexels = 0
        /\ calls.http_search = 0
        /\ Len(attempts) <= 1
        /\ \A i \in DOMAIN attempts : attempts[i].source = "url"
        /\ pc = "done" =>
               /\ Len(attempts) = 1
               /\ result.success <=> attempts[1].outcome = "ok"
               /\ result.success =>
                      /\ result.count = 1
                      /\ Len(result.files) = 1
                      /\ result.files[1] \in
                             { attempts[1].file, TrimOutputPath(attempts[1].file) }
               /\ ~result.success => result.error = "YouTube download failed"

\* C19 witness: an explicit-URL request whose download failed has returned a
\* failure without any search.
C19_Witness ==
    /\ pc = "done" /\ IsUrlRequest
    /\ Len(attempts) = 1 /\ attempts[1].outcome = "nonzero"
    /\ ~result.success
    /\ calls.search_pexels_videos = 0

\* The downloads started against the primary provider.
PrimaryAttempts ==
    { i \in DOMAIN attempts : attempts[i].source \in { "youtube", "url" } }

\* C20: within one request the primary provider is attempted at most once; a
\* query request's primary download that ended with a non-zero exit code, or
\* with exit code 0 and no output file, raises nothing, is not retried, and
\* control is on the secondary (Pexels) path, whose search has been called
\* once control is past it; the one exception that can follow is raised by
\* the secondary path's own duration filter, after its search.
C20_PrimaryAttemptedOnce ==
    /\ calls.download_youtube <= 1
    /\ calls.search_youtube <= 1
    /\ Cardinality(PrimaryAttempts) <= 1
    /\ \A i \in DOMAIN attempts :
           (IsQueryRequest /\ attempts[i].source = "youtube"
               /\ attempts[i].outcome \in { "nonzero", "no_file" })
           => /\ pc \in { "px_search", "px_download", "done", "raised" }
              /\ pc # "px_search" => calls.search_pexels_videos = 1
              /\ pc = "px_search" => raised = ""
              /\ raised # "" => (raised = "TypeError" /\ pc = "raised")

\* C20 witness: after a primary download that exited 0 without a file, the
\* request went on to download from Pexels and returned.
C20_Witness ==
    /\ pc = "done" /\ IsQueryRequest
    /\ Len(attempts) >= 2
    /\ attempts[1].source = "youtube" /\ attempts[1].outcome = "no_file"
    /\ attempts[2].source = "pexels"
    /\ calls.download_youtube = 1
    /\ result.success


\* C21: under a request that carries a time window or an explicit duration,
\* every file a video request returns has had a trim attempted on it: it is
\* the value some trim_video call returned.
C21_TrimAttemptedOnEveryFile ==
    (pc = "done" /\ req.handler = "video" /\ result.success
        /\ NeedTrim(req.duration, req.start, req.end))
    => \A i \in DOMAIN result.files :
           \E j \in DOMAIN trimLog : trimLog[j].returned = result.files[i]


\* A search_youtube call whose yt-dlp process ran and exited 0.
SearchAnswered ==
    call.fn = "search_youtube" /\ call.ran /\ call.outcome = "ok"
\* An output line that holds a JSON record within the limit (no limit when
\* max_duration is unset or 0).
Survives(line, max_duration) ==
    /\ line.kind = "record"
    /\ Truthy(max_duration) => VideoDuration(line) <= max_duration.v
\* The candidates of the surviving lines from line i on, in output order.
RECURSIVE SurvivorsOf(_, _, _)
SurvivorsOf(lines, max_duration, i) ==
    IF i > Len(lines) THEN << >>
    ELSE (IF Survives(lines[i], max_duration)
          THEN << YtCandidate(i, VideoDuration(lines[i])) >> ELSE << >>)
         \o SurvivorsOf(lines, max_duration, i + 1)

\* C22: the restricted search (a max_duration is given) for a count n asks
\* the downloader for 5 * n candidates, and returns the first n records with
\* duration <= max_duration in output order, never more than n.
C22_RestrictedSearch ==
    (SearchAnswered /\ Truthy(call.max_duration))
    => /\ call.requested = 5 * call.count
       /\ Len(ret) <= call.count
       /\ \A j \in DOMAIN ret : Survives(call.lines[ret[j].id], call.max_duration)
       /\ ret = Take(SurvivorsOf(call.lines, call.max_duration, 1), call.count)

\* C23: when the output holds a line that cannot be used as a JSON record,
\* the well-formed records of the other lines are still returned (up to the
\* count, within the limit).
C23_BadLineSkipped ==
    (SearchAnswered /\ \E i \in DOMAIN call.lines : call.lines[i].kind # "record")
    => LET S == SurvivorsOf(call.lines, call.max_duration, 1)
       IN \A k \in 1..Min(call.count, Len(S)) :
              k \in DOMAIN ret /\ ret[k] = S[k]


\* The width a rendition counts with when renditions are ranked.
RankedWidth(rendition) == IF rendition.width.isNone THEN 0 ELSE rendition.width.v
\* The first rendition of maximum width.
WidestFirst(files) ==
    CHOOSE k \in DOMAIN files :
        /\ \A m \in DOMAIN files : RankedWidth(files[m]) <= RankedWidth(files[k])
        /\ \A m \in 1..(k - 1) : RankedWidth(files[m]) < RankedWidth(files[k])
\* The positions of the items that have renditions.
WithRenditions(items) == { i \in DOMAIN items : items[i].files # << >> }

\* C24: the video search returns one candidate for each item that has
\* renditions and none for an item without; the candidate's URL, width and
\* height are those of the item's first rendition of maximum width.
C24_WidestRendition ==
    (call.fn = "search_pexels_videos" /\ call.ran /\ call.outcome = "ok")
    => /\ { ret[j].id : j \in DOMAIN ret } = WithRenditions(call.items)
       /\ Len(ret) = Cardinality(WithRenditions(call.items))
       /\ \A j \in DOMAIN ret :
              LET files == call.items[ret[j].id].files
                  best == files[WidestFirst(files)]
              IN /\ ret[j].url = best.link
                 /\ ret[j].width = best.width
                 /\ ret[j].height = best.height


\* C25: within one request any two downloads are started for distinct file
\* names, so no download overwrites the file of a sibling download; every
\* file a successful download wrote is still in the directory, unless a trim
\* replaced it.
C25_DistinctFileNames ==
    /\ \A i, j \in DOMAIN attempts :
           i # j => attempts[i].file # attempts[j].file
    /\ \A i \in DOMAIN attempts :
           (attempts[i].outcome = "ok" /\ attempts[i].file \notin deleted)
           => attempts[i].file \in fs
    /\ (pc = "done" /\ result.success) =>
           \A i, j \in DOMAIN result.files :
               i # j => result.files[i] # result.files[j]

\* C25 witness: two sibling downloads of one request both succeeded and the
\* result lists their two files.
C25_Witness ==
    /\ pc = "done" /\ result.success
    /\ Len(attempts) >= 2
    /\ \E i, j \in DOMAIN attempts :
           /\ i # j
           /\ attempts[i].source = attempts[j].source
           /\ attempts[i].outcome = "ok" /\ attempts[j].outcome = "ok"
    /\ Len(result.files) = 2


\* The phases of run in their order.
Phases == << "pre_execute", "execute", "post_execute" >>
\* The phases called so far.
PhasesCalled == [k \in DOMAIN trace |-> trace[k].phase]

\* C26: run calls pre_execute, execute, post_execute in that order; execute
\* is not called when pre_execute returned false, and run then returns
\* success = false; post_execute is called only after execute returned
\* normally; an exception raised in a phase ends run with a success = false
\* result and does not leave run.
C26_RunPhases ==
    /\ Len(trace) <= 3
    /\ PhasesCalled = SubSeq(Phases, 1, Len(trace))
    /\ runPc # "escaped"
    /\ (trace # << >> /\ trace[1].outcome = "false")
       => (Len(trace) = 1 /\ runPc = "returned" /\ ~runResult.success)
    /\ Len(trace) >= 2 => trace[1].outcome = "true"
    /\ Len(trace) = 3 => trace[2].outcome \in { "success", "failure" }
    /\ \A k \in DOMAIN trace :
           trace[k].outcome \in ExceptionKinds
           => /\ k = Len(trace)
              /\ runPc = "returned"
              /\ runResult.returned /\ ~runResult.success
    /\ (runPc = "returned" /\ Len(trace) = 3 /\ trace[3].outcome = "returned")
       => runResult = held

\* C26 witness: execute returned a success and post_execute raised an
\* exception that is no SkillError; run returned a failure.
C26_Witness ==
    /\ runPc = "returned"
    /\ Len(trace) = 3
    /\ trace[2].outcome = "success"
    /\ trace[3].outcome = "Exception"
    /\ ~runResult.success


C28_UnknownDurationKept ==
    /\ (SearchAnswered /\ Len(call.lines) <= call.count
           /\ \A i \in DOMAIN call.lines : call.lines[i].kind # "nonrecord")
       => /\ \A i \in DOMAIN call.lines :
                 (call.lines[i].kind = "record"
                     /\ call.lines[i].duration \in { None, Num(0) })
                 => \E j \in DOMAIN ret : ret[j].id = i /\ ret[j].duration = 0
          /\ ~Truthy(call.max_duration) =>
                 { ret[j].id : j \in DOMAIN ret }
                     = { i \in DOMAIN call.lines : call.lines[i].kind = "record" }
    /\ call.fn = "filter_duration"
       => /\ call.raised = ""
          /\ \A i \in DOMAIN call.cands :
                 call.cands[i].duration \in { NullDuration, 0 }
                 => \E j \in DOMAIN ret : ret[j] = call.cands[i]
          /\ ~Truthy(call.duration) => ret = call.cands


\* C29: a get of a key that was set, or read with a value before, returns
\* that value whatever the environment holds now; a get with required=True
\* of a key neither cached nor in the environment raises ConfigError and
\* leaves the cache as it was; a set is in the cache and the environment at
\* once.
C29_ConfigCache ==
    /\ last.op = "get" =>
           /\ last.pinned # Absent
              => (last.returned = last.pinned /\ last.raised = "" /\ cache = last.cache)
           /\ (last.pinned = Absent /\ last.env = Absent /\ last.required)
              => (last.raised = "ConfigError" /\ cache = last.cache)
           /\ (last.pinned = Absent /\ last.env = Absent /\ ~last.required)
              => (last.returned = last.default /\ last.raised = "" /\ cache = last.cache)
           /\ (last.pinned = Absent /\ last.env # Absent)
              => (last.returned = last.env /\ cache[last.key] = last.env)
    /\ last.op = "set" =>
           (cache[last.key] = last.value /\ environ[last.key] = last.value)
    /\ cache = pinned

\* C29 witness: a key was set, the environment variable was then changed,
\* and the get that followed returned the value set.
C29_Witness ==
    /\ last.op = "get"
    /\ last.pinned # Absent
    /\ last.env # Absent
    /\ last.env # last.pinned
    /\ last.returned = last.pinned


====
